---------------------------- MODULE Spec2Model ----------------------------
(***************************************************************************)
(* A model of web_server_api.py: the HTTP request parser, the answer       *)
(* builder, the route table, the per-connection thread, the listener       *)
(* thread, the Server's construction and its close sequence.               *)
(*                                                                         *)
(* Spec starts from a constructed Server and runs clients, the             *)
(* ServerThread, the ConnectionThreads and the main thread; FairSpec and   *)
(* CrashSpec are Spec over fewer request buffers; BootSpec starts inside   *)
(* Server.__init__; ApiSpec is a caller of HttpPacket.read and of the      *)
(* _HttpAnswer methods.                                                    *)
(*                                                                         *)
(* bytes and str values are sequences of one-element strings: one element  *)
(* per byte (bytes) or per code point (str).  A Python value is a record   *)
(* tagged with its type, [t |-> "str", v |-> ...], [t |-> "bytes", ...],   *)
(* [t |-> "None"].  A dict is the sequence of its <<key, value>> items in  *)
(* insertion order.  A call that may raise returns [exc |-> "none",        *)
(* val |-> ...] or [exc |-> <exception class>].                            *)
(***************************************************************************)
EXTENDS Integers, Sequences, FiniteSets, TLC

\* ------------------------------------------------------------------ bounds

\* Connections clients may open during one run.
MaxConns == 2

\* Calls of Server.close() during one run.
MaxStops == 2

\* ------------------------------------------------------------------- bytes

CR == "\r"
LF == "\n"
SP == " "
CRLF == <<CR, LF>>
CRLFCRLF == <<CR, LF, CR, LF>>
COLON == ":"

None == [t |-> "None"]
Str(s) == [t |-> "str", v |-> s]
Bytes(b) == [t |-> "bytes", v |-> b]

Ok(v) == [exc |-> "none", val |-> v]
Raise(e) == [exc |-> e]

\* The one code point outside ASCII the model uses, and its UTF-8 bytes.
EACUTE == "U+00E9"
XC3 == "xC3"
XA9 == "xA9"
\* A byte that no UTF-8 sequence contains.
XFF == "xFF"

\* str.encode("utf-8"): one byte per ASCII code point, two for U+00E9.
RECURSIVE encode(_)
encode(s) ==
    IF s = <<>> THEN <<>>
    ELSE (IF Head(s) = EACUTE THEN <<XC3, XA9>> ELSE <<Head(s)>>) \o encode(Tail(s))

\* Whether b is valid UTF-8: no xFF, no lone continuation byte, every lead
\* byte followed by its continuation byte.
RECURSIVE utf8_valid(_)
utf8_valid(b) ==
    IF b = <<>> THEN TRUE
    ELSE IF Head(b) = XC3 THEN Len(b) >= 2 /\ b[2] = XA9 /\ utf8_valid(Tail(Tail(b)))
    ELSE IF Head(b) \in {XA9, XFF} THEN FALSE
    ELSE utf8_valid(Tail(b))

\* The code points of valid UTF-8 bytes.
RECURSIVE utf8_text(_)
utf8_text(b) ==
    IF b = <<>> THEN <<>>
    ELSE IF Head(b) = XC3 THEN <<EACUTE>> \o utf8_text(Tail(Tail(b)))
    ELSE <<Head(b)>> \o utf8_text(Tail(b))

\* bytes.decode("utf-8"): UnicodeDecodeError on bytes that are not valid.
decode(b) == IF utf8_valid(b) THEN Ok(utf8_text(b)) ELSE Raise("UnicodeDecodeError")

\* Whether sep occurs in s at position i.
occurs_at(s, sep, i) ==
    /\ i + Len(sep) - 1 <= Len(s)
    /\ \A j \in 1..Len(sep) : s[i + j - 1] = sep[j]

\* bytes.find(sep) from position i: the first position >= i where sep
\* occurs, 0 when there is none.
RECURSIVE find_from(_, _, _)
find_from(s, sep, i) ==
    IF i + Len(sep) - 1 > Len(s) THEN 0
    ELSE IF occurs_at(s, sep, i) THEN i
    ELSE find_from(s, sep, i + 1)

\* bytes.split(sep): the pieces between the non-overlapping occurrences of
\* sep, scanned left to right; a buffer without sep is its own single piece.
RECURSIVE split(_, _)
split(s, sep) ==
    LET i == find_from(s, sep, 1)
    IN  IF i = 0 THEN <<s>>
        ELSE <<SubSeq(s, 1, i - 1)>> \o split(SubSeq(s, i + Len(sep), Len(s)), sep)

\* partition as it would be if it cut at the last occurrence of sep.
rpartition(s, sep) ==
    LET cuts == {i \in 1..Len(s) : s[i] = sep}
    IN  IF cuts = {} THEN <<s, <<>>, <<>>>>
        ELSE LET i == CHOOSE c \in cuts : \A o \in cuts : o <= c
             IN  <<SubSeq(s, 1, i - 1), <<sep>>, SubSeq(s, i + 1, Len(s))>>

\* bytes.partition(sep) for a one-byte sep: <<before, sep, after>>, or
\* <<s, b"", b"">> when sep does not occur.
partition(s, sep) ==
    LET i == find_from(s, <<sep>>, 1)
    IN  IF i = 0 THEN <<s, <<>>, <<>>>>
        ELSE <<SubSeq(s, 1, i - 1), <<sep>>, SubSeq(s, i + 1, Len(s))>>

\* ------------------------------------------------------------------- dicts

dict_has(d, k) == \E i \in 1..Len(d) : d[i][1] = k

dict_get(d, k) == d[CHOOSE i \in 1..Len(d) : d[i][1] = k][2]

\* d[k] = v: an existing key keeps its place and takes the new value.
dict_set(d, k, v) ==
    IF dict_has(d, k)
    THEN [i \in 1..Len(d) |-> IF d[i][1] = k THEN <<k, v>> ELSE d[i]]
    ELSE Append(d, <<k, v>>)

\* ------------------------------------------------------------ _HttpRequest

\* The loop of parse over the header lines: k, _, v = line.partition(b":").
RECURSIVE parse_headers(_, _)
parse_headers(lines, d) ==
    IF lines = <<>> THEN d
    ELSE LET p == partition(Head(lines), COLON)
         IN  parse_headers(Tail(lines), dict_set(d, p[1], p[3]))

\* _HttpRequest.parse: the unpacking of request.split(b" ") into three names
\* raises ValueError for any other number of pieces.
parse(datas) ==
    LET header  == split(datas, CRLFCRLF)[1]
        lines   == split(header, CRLF)
        request == lines[1]
        tokens  == split(request, <<SP>>)
    IN  IF Len(tokens) # 3 THEN Raise("ValueError")
        ELSE Ok([request |-> request,
                 method  |-> tokens[1],
                 url     |-> tokens[2],
                 type    |-> tokens[3],
                 headers |-> parse_headers(Tail(lines), <<>>)])

\* ------------------------------------------------------------- _HttpAnswer

SUCCESS == <<"H", "T", "T", "P", "/", "1", ".", "1", " ", "2", "0", "0", " ", "O", "K">>
ERROR == <<"H", "T", "T", "P", "/", "1", ".", "1", " ", "4", "0", "4", " ", "N", "o", "t", " ", "F", "o", "u", "n", "d">>
SERVER_CLOSED == <<"H", "T", "T", "P", "/", "1", ".", "1", " ", "5", "0", "3", " ", "S", "e", "r", "v", "e", "r", " ", "c", "l", "o", "s", "e", "d">>

\* _HttpAnswer.__init__
new_answer == [code |-> None, headers |-> None, content |-> None]

\* _HttpAnswer.set_answer_code: only SUCCESS and ERROR are accepted.
set_answer_code(answer, code) ==
    IF code \in {Str(SUCCESS), Str(ERROR)}
    THEN Ok([answer EXCEPT !.code = code])
    ELSE Raise("TypeError")

\* _HttpAnswer.set_headers
set_headers(answer, headers) == [answer EXCEPT !.headers = headers]

\* _HttpAnswer.set_content: a str is encoded, anything else is kept as it is.
set_content(answer, content) ==
    [answer EXCEPT !.content =
        IF content.t = "str" THEN Bytes(encode(content.v)) ELSE content]

\* join_headers as it would be with the lines joined by LF alone.
RECURSIVE join_headers_lf(_)
join_headers_lf(items) ==
    IF items = <<>> THEN <<>>
    ELSE encode(items[1][1]) \o <<COLON, SP>> \o encode(items[1][2])
         \o (IF Len(items) > 1 THEN <<LF>> \o join_headers_lf(Tail(items)) ELSE <<>>)

\* The header lines of as_bytes, joined by CRLF.
RECURSIVE join_headers(_)
join_headers(items) ==
    IF items = <<>> THEN <<>>
    ELSE encode(items[1][1]) \o <<COLON, SP>> \o encode(items[1][2])
         \o (IF Len(items) > 1 THEN CRLF \o join_headers(Tail(items)) ELSE <<>>)

\* as_bytes as it would be if it did not look at _content: an answer
\* without a content is written with an empty one.
as_bytes_unchecked(answer) ==
    IF answer.code = None \/ answer.headers = None
    THEN Raise("AttributeError")
    ELSE IF answer.content = None
    THEN Ok(encode(answer.code.v) \o CRLF \o join_headers(answer.headers.v)
            \o CRLFCRLF \o CRLFCRLF)
    ELSE IF answer.content.t # "bytes" THEN Raise("TypeError")
    ELSE Ok(encode(answer.code.v) \o CRLF \o join_headers(answer.headers.v)
            \o CRLFCRLF \o answer.content.v \o CRLFCRLF)

\* _HttpAnswer.as_bytes: AttributeError while a field is None; the
\* concatenation raises TypeError for a content that is not bytes.
as_bytes(answer) ==
    IF answer.code = None \/ answer.headers = None \/ answer.content = None
    THEN Raise("AttributeError")
    ELSE IF answer.content.t # "bytes" THEN Raise("TypeError")
    ELSE Ok(encode(answer.code.v) \o CRLF \o join_headers(answer.headers.v)
            \o CRLFCRLF \o answer.content.v \o CRLFCRLF)

SERVER_HEADERS == [t |-> "dict", v |-> <<<<<<"s", "e", "r", "v", "e", "r">>, <<"H", "o", "r", "u", "s">>>>>>]
NOT_FOUND_TEXT == <<"N", "o", "t", " ", "f", "o", "u", "n", "d", ".", ".", ".", " ", ":", "/">>
SERVER_CLOSED_TEXT == <<"S", "e", "r", "v", "e", "r", " ", "c", "l", "o", "s", "e", "d", " ", ":", "/">>

\* default_error_msg as it would be with the 404 status line.
default_error_msg_404 ==
    LET coded == set_answer_code(new_answer, Str(ERROR))
    IN  IF coded.exc # "none" THEN coded
        ELSE Ok(set_content(set_headers(coded.val, SERVER_HEADERS), Str(NOT_FOUND_TEXT)))

\* _HttpAnswer.default_error_msg
default_error_msg ==
    LET coded == set_answer_code(new_answer, Str(SUCCESS))
    IN  IF coded.exc # "none" THEN coded
        ELSE Ok(set_content(set_headers(coded.val, SERVER_HEADERS), Str(NOT_FOUND_TEXT)))

\* _HttpAnswer.server_closed_msg
server_closed_msg ==
    LET coded == set_answer_code(new_answer, Str(SERVER_CLOSED))
    IN  IF coded.exc # "none" THEN coded
        ELSE Ok(set_content(set_headers(coded.val, SERVER_HEADERS), Str(SERVER_CLOSED_TEXT)))

\* -------------------------------------------------------------------- Path

\* The route the application registers before the server starts: the url,
\* the file argument, the decorated function.
Registrations ==
    << [url |-> <<"/">>, file |-> Str(<<"t", "e", "s", "t", ".", "h", "t", "m", "l">>), function |-> "func"] >>

\* What the registered function does when called: it returns "hello".
function_call(name) ==
    CASE name = "func" -> Ok(Str(<<"h", "e", "l", "l", "o">>))

\* The states of the file named by the file argument: its content at
\* os.path.join(PATH, file), the place tested, and at file resolved against
\* the working directory, the place opened.  The two are one file when PATH
\* is the working directory; otherwise the working directory may hold no
\* such file, or another file of that name.
FILE_BYTES == <<"<", "p", ">">>
CWD_FILE_BYTES == <<"<", "q", ">">>
FileSystems ==
    { [tested |-> None,              opened |-> None],
      [tested |-> Bytes(FILE_BYTES), opened |-> Bytes(FILE_BYTES)],
      [tested |-> Bytes(FILE_BYTES), opened |-> None],
      [tested |-> Bytes(FILE_BYTES), opened |-> Bytes(CWD_FILE_BYTES)] }

\* The wrapper Path.__call__ stores in ALL_PATHS: the bytes of the file when
\* one is given and exists, the function's return value otherwise.  called
\* lists the registered functions the wrapper invoked.
wrapper(route, files) ==
    IF route.file # None /\ files.tested # None
    THEN IF files.opened = None
         THEN [exc |-> "FileNotFoundError", called |-> <<>>]
         ELSE [exc |-> "none", val |-> files.opened, called |-> <<>>]
    ELSE LET r == function_call(route.function)
         IN  IF r.exc = "none"
             THEN [exc |-> "none", val |-> r.val, called |-> <<route.function>>]
             ELSE [exc |-> r.exc, called |-> <<route.function>>]

\* Path.__call__ for each registration in turn: ALL_PATHS[url] = wrapper.
RECURSIVE register_all(_, _)
register_all(regs, paths) ==
    IF regs = <<>> THEN paths
    ELSE register_all(Tail(regs), dict_set(paths, Head(regs).url, Head(regs)))

ALL_PATHS == register_all(Registrations, <<>>)

\* Path.find: the wrapper registered for url, None when there is none.
find(url) == IF dict_has(ALL_PATHS, url) THEN dict_get(ALL_PATHS, url) ELSE None

\* -------------------------------------------------------- ConnectionThread

\* Lines 204-205 of ConnectionThread.run: parse the bytes received, then
\* decode the request line for the log.
read_request(datas) ==
    LET request == parse(datas)
    IN  IF request.exc # "none" THEN request
        ELSE IF decode(request.val.request).exc # "none"
             THEN Raise("UnicodeDecodeError")
             ELSE request

\* Lines 206-217 of ConnectionThread.run: the answer built for a parsed
\* request by a thread whose _alive flag reads alive.
build_answer(request, alive, files) ==
    LET url == decode(request.url)
    IN  IF url.exc # "none" THEN [exc |-> url.exc, called |-> <<>>]
        ELSE LET f == find(url.val)
             IN  IF f # None /\ alive
                 THEN LET content == wrapper(f, files)
                      IN  IF content.exc # "none" THEN content
                          ELSE LET coded == set_answer_code(new_answer, Str(SUCCESS))
                               IN  IF coded.exc # "none"
                                   THEN [exc |-> coded.exc, called |-> content.called]
                                   ELSE [exc |-> "none",
                                         val |-> set_content(
                                                   set_headers(coded.val, SERVER_HEADERS),
                                                   content.val),
                                         called |-> content.called]
                 ELSE IF alive
                 THEN IF default_error_msg.exc # "none"
                      THEN [exc |-> default_error_msg.exc, called |-> <<>>]
                      ELSE [exc |-> "none", val |-> default_error_msg.val, called |-> <<>>]
                 ELSE IF server_closed_msg.exc # "none"
                      THEN [exc |-> server_closed_msg.exc, called |-> <<>>]
                      ELSE [exc |-> "none", val |-> server_closed_msg.val, called |-> <<>>]

\* ----------------------------------------------------------------- clients

\* The buffers a client may send on a connection; the empty buffer is what
\* recv returns when the client closes without sending.
GET == <<"G", "E", "T">>
HTTP11 == <<"H", "T", "T", "P", "/", "1", ".", "1">>
RequestLine(target) == GET \o <<SP>> \o target \o <<SP>> \o HTTP11

Requests ==
    { RequestLine(<<"/">>) \o CRLF \o <<"H", "o", "s", "t", ":", "x">> \o CRLFCRLF,
      RequestLine(<<"/">>) \o CRLF \o <<"a", ":", " ", "1">> \o CRLF \o <<"a", ":", "2", ":", "3">> \o CRLFCRLF \o <<"b", "o", "d", "y">>,
      RequestLine(<<"/", "m", "i", "s", "s", "i", "n", "g">>) \o CRLFCRLF,
      RequestLine(<<"/">>),
      GET \o <<SP>> \o <<"/">> \o CRLFCRLF,
      RequestLine(<<"/", XFF>>) \o CRLFCRLF,
      <<>> }

\* ------------------------------------------------------------------- state

Conns == 1..MaxConns

VARIABLES
    files,         \* the file system state the wrappers see
    sock_open,     \* Server._connexion, the listening socket, is open
    backlog,       \* connections established and not yet returned by accept
    server_alive,  \* ServerThread._alive
    lpc,           \* where ServerThread is: "new" (not started), "while",
                   \* "accept", "accepted" (line 241), "for", "dead"
    client,        \* ServerThread.run's local client (0: unset)
    threads,       \* ServerThread._threads
    ki,            \* the index of the for loop of line 247
    mpc,           \* where the main thread is: "boot" (line 276), "error"
                   \* (line 330), "exited", "init" (constructed), "running",
                   \* "loader" (line 326), "close" (line 311), "stopped"
    stops,         \* calls of Server.close() begun
    cst,           \* per connection: "none", "queued" (it entered the accept
                   \* queue and accept has not returned it), "accepted",
                   \* "handled" (owned by a ConnectionThread), "dropped"
    data,          \* per connection: the bytes its client sent, None before
    hpc,           \* per ConnectionThread: "none", "recv", "parsed",
                   \* "answer", "sent", "closed", "crashed"
    halive,        \* per ConnectionThread: _alive
    dalive,        \* per ConnectionThread: what run read from _alive at
                   \* lines 206/213 ("none" before, "alive", "killed")
    answer,        \* per ConnectionThread: the local answer, None before
    wire,          \* per connection: the payloads the server wrote to it
    copen,         \* per connection: the server's socket for it is open
    hexc,          \* per ConnectionThread: the exception that ended run
    calls,         \* per ConnectionThread: the registered functions it called
    acc_alive,     \* per connection: what ServerThread._alive was when accept
                   \* returned it ("none" before)
    lpc_at_kill,   \* where ServerThread was when kill() first ran
    listening,     \* bind and listen succeeded on the socket
    stderr,        \* the messages printed to sys.stderr
    raised,        \* the exception that ended the main thread, "none" before
    exit_status,   \* the status the process exited with, "none" while it runs
    obj,           \* an _HttpAnswer a caller builds: its _code, _headers, _content
    given,         \* the argument of the last set_content on obj, None before
    ret            \* the last call on the HTTP classes: its name, its argument,
                   \* obj before it and what it returned or raised

vars == << files, sock_open, backlog, server_alive, lpc, client, threads, ki,
           mpc, stops, cst, data, hpc, halive, dalive, answer, wire, copen,
           hexc, calls, acc_alive, lpc_at_kill, listening, stderr, raised,
           exit_status, obj, given, ret >>

server_vars == << sock_open, backlog, server_alive, lpc, client, threads, ki,
                  mpc, stops, acc_alive, lpc_at_kill >>
handler_vars == << hpc, halive, dalive, answer, wire, copen, hexc, calls >>
boot_vars == << listening, stderr, raised, exit_status >>
api_vars == << obj, given, ret >>

\* The state with the main thread at pc and nothing done yet by any other
\* thread or client; bound tells whether the socket exists, bound and
\* listening.
StateAt(fs, pc, bound) ==
    /\ files \in fs
    /\ sock_open = bound
    /\ backlog = <<>>
    /\ server_alive = TRUE
    /\ lpc = "new"
    /\ client = 0
    /\ threads = <<>>
    /\ ki = 0
    /\ mpc = pc
    /\ stops = 0
    /\ cst = [c \in Conns |-> "none"]
    /\ data = [c \in Conns |-> None]
    /\ hpc = [c \in Conns |-> "none"]
    /\ halive = [c \in Conns |-> TRUE]
    /\ dalive = [c \in Conns |-> "none"]
    /\ answer = [c \in Conns |-> None]
    /\ wire = [c \in Conns |-> <<>>]
    /\ copen = [c \in Conns |-> FALSE]
    /\ hexc = [c \in Conns |-> "none"]
    /\ calls = [c \in Conns |-> <<>>]
    /\ acc_alive = [c \in Conns |-> "none"]
    /\ lpc_at_kill = "none"
    /\ listening = bound
    /\ stderr = <<>>
    /\ raised = "none"
    /\ exit_status = "none"
    /\ obj = new_answer
    /\ given = None
    /\ ret = [op |-> "none"]

\* Server.__init__ has returned: the socket is bound and listening, the
\* ServerThread is built and not started.
InitWith(fs) == StateAt(fs, "init", TRUE)

Init == InitWith(FileSystems)

\* ----------------------------------------------------------------- clients

\* A client connects to the listening socket: the connection waits in the
\* accept queue.  Connections are numbered in the order they are made.
Connect(c) ==
    /\ cst[c] = "none"
    /\ \A d \in 1..(c - 1) : cst[d] # "none"
    /\ sock_open
    /\ listening
    /\ cst' = [cst EXCEPT ![c] = "queued"]
    /\ backlog' = Append(backlog, c)
    /\ UNCHANGED << boot_vars, api_vars, files, sock_open, server_alive, lpc, client, threads, ki,
                    mpc, stops, data, acc_alive, lpc_at_kill, handler_vars >>

\* Connection c waits in the accept queue of the listening socket.
waiting(c) == \E i \in 1..Len(backlog) : backlog[i] = c

\* The client of connection c sends its one buffer.  The connection is
\* established: it waits in the accept queue or accept has returned it.  On
\* a connection that the close of the listening socket removed from the
\* queue the client's send fails and nothing is sent.
Send(c, r) ==
    /\ cst[c] # "none"
    /\ cst[c] = "queued" => waiting(c)
    /\ data[c] = None
    /\ hpc[c] \in {"none", "recv"}
    /\ data' = [data EXCEPT ![c] = Bytes(r)]
    /\ UNCHANGED << boot_vars, api_vars, files, cst, server_vars, handler_vars >>

\* ------------------------------------------------------------ ServerThread

\* threading.Thread.is_alive for the ServerThread.
is_alive == lpc \notin {"new", "dead"}

\* Server.run_forever, line 293: self._server.start(), called by the main
\* thread while it is in no other call, before or after a close().  A thread
\* starts once: start() on a thread already started raises RuntimeError and
\* changes nothing.
Start ==
    /\ mpc \in {"init", "stopped"}
    /\ lpc = "new"
    /\ mpc' = "running"
    /\ lpc' = "while"
    /\ UNCHANGED << boot_vars, api_vars, files, sock_open, backlog, server_alive, client, threads, ki,
                    stops, cst, data, acc_alive, lpc_at_kill, handler_vars >>

\* Line 239: while self._alive.
WhileAlive ==
    /\ lpc = "while"
    /\ IF server_alive
       THEN lpc' = "accept" /\ ki' = ki
       ELSE lpc' = "for" /\ ki' = 1
    /\ UNCHANGED << boot_vars, api_vars, files, sock_open, backlog, server_alive, client, threads,
                    mpc, stops, cst, data, acc_alive, lpc_at_kill, handler_vars >>

\* Accept as it would be if clearing the flag woke a blocked accept: the
\* call returns without a connection and the loop is left.
Accept_Interrupted ==
    /\ lpc = "accept"
    /\ \/ /\ backlog # <<>>
          /\ client' = Head(backlog)
          /\ backlog' = Tail(backlog)
          /\ cst' = [cst EXCEPT ![Head(backlog)] = "accepted"]
          /\ acc_alive' = [acc_alive EXCEPT ![Head(backlog)] =
                              IF server_alive THEN "alive" ELSE "killed"]
          /\ lpc' = "accepted"
          /\ ki' = ki
       \/ /\ ~server_alive
          /\ lpc' = "for"
          /\ ki' = 1
          /\ UNCHANGED << client, backlog, cst, acc_alive >>
    /\ UNCHANGED << boot_vars, api_vars, files, sock_open, server_alive, threads, mpc, stops,
                    data, lpc_at_kill, handler_vars >>

\* Line 240: accept returns the oldest waiting connection; it blocks while
\* there is none.
Accept ==
    /\ lpc = "accept"
    /\ backlog # <<>>
    /\ client' = Head(backlog)
    /\ backlog' = Tail(backlog)
    /\ cst' = [cst EXCEPT ![Head(backlog)] = "accepted"]
    /\ acc_alive' = [acc_alive EXCEPT ![Head(backlog)] =
                        IF server_alive THEN "alive" ELSE "killed"]
    /\ lpc' = "accepted"
    /\ UNCHANGED << boot_vars, api_vars, files, sock_open, server_alive, threads, ki, mpc, stops,
                    data, lpc_at_kill, handler_vars >>

\* Lines 241-245: leave the loop when killed, the accepted connection left
\* without a thread; otherwise build its ConnectionThread, append it to
\* _threads and start it.
Spawn ==
    /\ lpc = "accepted"
    /\ IF ~server_alive
       THEN /\ lpc' = "for"
            /\ ki' = 1
            /\ cst' = [cst EXCEPT ![client] = "dropped"]
            /\ UNCHANGED << threads, hpc, halive, copen >>
       ELSE /\ lpc' = "while"
            /\ ki' = ki
            /\ cst' = [cst EXCEPT ![client] = "handled"]
            /\ threads' = Append(threads, client)
            /\ halive' = [halive EXCEPT ![client] = TRUE]
            /\ copen' = [copen EXCEPT ![client] = TRUE]
            /\ hpc' = [hpc EXCEPT ![client] = "recv"]
    /\ UNCHANGED << boot_vars, api_vars, files, sock_open, backlog, server_alive, client, mpc, stops,
                    data, dalive, answer, wire, hexc, calls, acc_alive, lpc_at_kill >>

\* CloseThread as it would be if close_thread stopped the thread: the flag
\* is cleared, the connection closed and a thread still running ended.
CloseThread_Abort ==
    /\ lpc = "for"
    /\ ki <= Len(threads)
    /\ halive' = [halive EXCEPT ![threads[ki]] = FALSE]
    /\ copen' = [copen EXCEPT ![threads[ki]] = FALSE]
    /\ hpc' = [hpc EXCEPT ![threads[ki]] =
                  IF hpc[threads[ki]] \in {"closed", "crashed"}
                  THEN hpc[threads[ki]] ELSE "crashed"]
    /\ ki' = ki + 1
    /\ UNCHANGED << boot_vars, api_vars, files, sock_open, backlog, server_alive,
                    lpc, client, threads, mpc, stops, cst, data, dalive, answer,
                    wire, hexc, calls, acc_alive, lpc_at_kill >>

\* Lines 247-248 and ConnectionThread.kill: one turn of the for loop clears
\* the _alive flag of one thread of _threads.
CloseThread ==
    /\ lpc = "for"
    /\ ki <= Len(threads)
    /\ halive' = [halive EXCEPT ![threads[ki]] = FALSE]
    /\ ki' = ki + 1
    /\ UNCHANGED << boot_vars, api_vars, files, sock_open, backlog, server_alive, lpc, client, threads,
                    mpc, stops, cst, data, hpc, dalive, answer, wire, copen, hexc,
                    calls, acc_alive, lpc_at_kill >>

\* The for loop is over: run returns and the thread is no longer alive.
RunReturns ==
    /\ lpc = "for"
    /\ ki > Len(threads)
    /\ lpc' = "dead"
    /\ UNCHANGED << boot_vars, api_vars, files, sock_open, backlog, server_alive, client, threads, ki,
                    mpc, stops, cst, data, acc_alive, lpc_at_kill, handler_vars >>

\* -------------------------------------------------------- ConnectionThread

\* Recv as it would be if an exception in a ConnectionThread reached the
\* ServerThread and cleared its flag.
Recv_Fatal(c) ==
    /\ hpc[c] = "recv"
    /\ data[c] # None
    /\ LET request == read_request(data[c].v)
       IN  IF request.exc # "none"
           THEN /\ hpc' = [hpc EXCEPT ![c] = "crashed"]
                /\ hexc' = [hexc EXCEPT ![c] = request.exc]
                /\ server_alive' = FALSE
           ELSE /\ hpc' = [hpc EXCEPT ![c] = "parsed"]
                /\ hexc' = hexc
                /\ server_alive' = server_alive
    /\ UNCHANGED << boot_vars, api_vars, files, cst, data, sock_open, backlog, lpc,
                    client, threads, ki, mpc, stops, acc_alive, lpc_at_kill,
                    halive, dalive, answer, wire, copen, calls >>

\* Lines 203-205: recv returns the client's buffer, which is parsed; an
\* exception ends the thread with the connection still open.
Recv(c) ==
    /\ hpc[c] = "recv"
    /\ data[c] # None
    /\ LET request == read_request(data[c].v)
       IN  IF request.exc # "none"
           THEN /\ hpc' = [hpc EXCEPT ![c] = "crashed"]
                /\ hexc' = [hexc EXCEPT ![c] = request.exc]
           ELSE /\ hpc' = [hpc EXCEPT ![c] = "parsed"]
                /\ hexc' = hexc
    /\ UNCHANGED << boot_vars, api_vars, files, cst, data, server_vars, halive, dalive, answer, wire,
                    copen, calls >>

\* Lines 206-217: look the path up, read _alive and build the answer.
Dispatch(c) ==
    /\ hpc[c] = "parsed"
    /\ LET built == build_answer(parse(data[c].v).val, halive[c], files)
       IN  /\ calls' = [calls EXCEPT ![c] = calls[c] \o built.called]
           /\ dalive' = [dalive EXCEPT ![c] =
                            IF decode(parse(data[c].v).val.url).exc # "none" THEN "none"
                            ELSE IF halive[c] THEN "alive" ELSE "killed"]
           /\ IF built.exc # "none"
              THEN /\ hpc' = [hpc EXCEPT ![c] = "crashed"]
                   /\ hexc' = [hexc EXCEPT ![c] = built.exc]
                   /\ answer' = answer
              ELSE /\ hpc' = [hpc EXCEPT ![c] = "answer"]
                   /\ hexc' = hexc
                   /\ answer' = [answer EXCEPT ![c] = built.val]
    /\ UNCHANGED << boot_vars, api_vars, files, cst, data, server_vars, halive, wire, copen >>

\* Line 218: sendall(answer.as_bytes()).
Sendall(c) ==
    /\ hpc[c] = "answer"
    /\ LET payload == as_bytes(answer[c])
       IN  IF payload.exc # "none"
           THEN /\ hpc' = [hpc EXCEPT ![c] = "crashed"]
                /\ hexc' = [hexc EXCEPT ![c] = payload.exc]
                /\ wire' = wire
           ELSE /\ hpc' = [hpc EXCEPT ![c] = "sent"]
                /\ hexc' = hexc
                /\ wire' = [wire EXCEPT ![c] = Append(wire[c], payload.val)]
    /\ UNCHANGED << boot_vars, api_vars, files, cst, data, server_vars, halive, dalive, answer, copen,
                    calls >>

\* Line 219: self._connexion.close().
CloseConn(c) ==
    /\ hpc[c] = "sent"
    /\ hpc' = [hpc EXCEPT ![c] = "closed"]
    /\ copen' = [copen EXCEPT ![c] = FALSE]
    /\ UNCHANGED << boot_vars, api_vars, files, cst, data, server_vars, halive, dalive, answer, wire,
                    hexc, calls >>

\* ------------------------------------------------------------------ Server

\* Kill as it would be if kill() flipped the flag instead of clearing it.
Kill_Toggle ==
    /\ mpc \in {"init", "running", "stopped"}
    /\ stops < MaxStops
    /\ stops' = stops + 1
    /\ server_alive' = ~server_alive
    /\ lpc_at_kill' = IF lpc_at_kill = "none" THEN lpc ELSE lpc_at_kill
    /\ mpc' = "loader"
    /\ UNCHANGED << boot_vars, api_vars, files, sock_open, backlog, lpc, client, threads, ki, cst,
                    data, acc_alive, handler_vars >>

\* Kill as it would be if ServerThread.kill() also cleared the flag of every
\* ConnectionThread.
Kill_Cascade ==
    /\ mpc \in {"init", "running", "stopped"}
    /\ stops < MaxStops
    /\ stops' = stops + 1
    /\ server_alive' = FALSE
    /\ halive' = [c \in Conns |-> FALSE]
    /\ lpc_at_kill' = IF lpc_at_kill = "none" THEN lpc ELSE lpc_at_kill
    /\ mpc' = "loader"
    /\ UNCHANGED << boot_vars, api_vars, files, sock_open, backlog, lpc, client,
                    threads, ki, cst, data, acc_alive, hpc, dalive, answer, wire,
                    copen, hexc, calls >>

\* Server.close begins: close_server_thread calls self._server.kill()
\* (line 322) and enters the loader.
Kill ==
    /\ mpc \in {"init", "running", "stopped"}
    /\ stops < MaxStops
    /\ stops' = stops + 1
    /\ server_alive' = FALSE
    /\ lpc_at_kill' = IF lpc_at_kill = "none" THEN lpc ELSE lpc_at_kill
    /\ mpc' = "loader"
    /\ UNCHANGED << boot_vars, api_vars, files, sock_open, backlog, lpc, client, threads, ki, cst,
                    data, acc_alive, handler_vars >>

\* LoaderReturns as it would be if the loader did not wait for the thread.
LoaderReturns_NoWait ==
    /\ mpc = "loader"
    /\ mpc' = "close"
    /\ UNCHANGED << boot_vars, api_vars, files, sock_open, backlog, server_alive, lpc, client, threads,
                    ki, stops, cst, data, acc_alive, lpc_at_kill, handler_vars >>

\* Lines 325-326: CliLoader.run polls self._server.is_alive and returns once
\* it is False.
LoaderReturns ==
    /\ mpc = "loader"
    /\ ~is_alive
    /\ mpc' = "close"
    /\ UNCHANGED << boot_vars, api_vars, files, sock_open, backlog, server_alive, lpc, client, threads,
                    ki, stops, cst, data, acc_alive, lpc_at_kill, handler_vars >>

\* Server.close_connexion: the listening socket is closed, and with it the
\* connections still waiting in its accept queue, which accept will never
\* return.
CloseConnexion ==
    /\ mpc = "close"
    /\ sock_open' = FALSE
    /\ backlog' = <<>>
    /\ mpc' = "stopped"
    /\ UNCHANGED << boot_vars, api_vars, files, server_alive, lpc, client, threads, ki, stops,
                    cst, data, acc_alive, lpc_at_kill, handler_vars >>

\* ------------------------------------------------------------ construction

INIT_CONNEXION_ERROR == "Initialisation of connexion failed..."

\* Server._init_connection (lines 281-289), called by __init__ at line 276:
\* socket(), bind and listen succeed and __init__ goes on to build the
\* ServerThread, or one of them raises and self.error is called.  A failure
\* of socket() leaves no socket; a failure of bind or listen leaves the
\* socket made, open and not listening.
InitConnection ==
    /\ mpc = "boot"
    /\ \E outcome \in {"ok", "socket", "bind", "listen"} :
          /\ sock_open' = (outcome # "socket")
          /\ listening' = (outcome = "ok")
          /\ mpc' = IF outcome = "ok" THEN "init" ELSE "error"
    /\ UNCHANGED << stderr, raised, exit_status, api_vars, files, backlog,
                    server_alive, lpc, client, threads, ki, stops, cst, data,
                    acc_alive, lpc_at_kill, handler_vars >>

\* Server.error (lines 330-334) as called from _init_connection: the message
\* is printed, then self.close() is entered (line 333) and calls
\* close_server_thread, whose self._server.kill() (line 322) raises
\* AttributeError, self._server being assigned only at line 277.  Nothing
\* catches it: close_connexion and sys.exit(1) are not reached, the socket is
\* not closed, and the interpreter ends on the uncaught exception, with
\* status 1.
Error ==
    /\ mpc = "error"
    /\ stderr' = Append(stderr, INIT_CONNEXION_ERROR)
    /\ stops' = stops + 1
    /\ raised' = "AttributeError"
    /\ exit_status' = "1"
    /\ mpc' = "exited"
    /\ UNCHANGED << listening, api_vars, files, sock_open, backlog, server_alive,
                    lpc, client, threads, ki, cst, data, acc_alive,
                    lpc_at_kill, handler_vars >>

\* ----------------------------------------------------------- specification

ClientStep == \E c \in Conns : Connect(c) \/ \E r \in Requests : Send(c, r)

ListenerStep == WhileAlive \/ Accept \/ Spawn \/ CloseThread \/ RunReturns

HandlerStep == \E c \in Conns : Recv(c) \/ Dispatch(c) \/ Sendall(c) \/ CloseConn(c)

MainStep == Start \/ Kill \/ LoaderReturns \/ CloseConnexion

Next == ClientStep \/ ListenerStep \/ HandlerStep \/ MainStep

Spec == Init /\ [][Next]_vars

\* ---------------------------------------------------------- fair behaviours

\* The buffers clients send in the fair behaviours, three of Requests: one
\* that is served, one for a path that is not registered and one that ends
\* its thread with an exception.
FairRequests ==
    { RequestLine(<<"/">>) \o CRLF \o <<"a", ":", " ", "1">> \o CRLF \o <<"a", ":", "2", ":", "3">> \o CRLFCRLF \o <<"b", "o", "d", "y">>,
      RequestLine(<<"/", "m", "i", "s", "s", "i", "n", "g">>) \o CRLFCRLF,
      GET \o <<SP>> \o <<"/">> \o CRLFCRLF }

FairClientStep == \E c \in Conns : Connect(c) \/ \E r \in FairRequests : Send(c, r)

FairNext == FairClientStep \/ ListenerStep \/ HandlerStep \/ MainStep

\* The threads the shutdown rests on keep running: the ServerThread takes
\* its next step whenever it has one (it has none while accept blocks), and
\* the main thread, once inside close(), goes on through the loader and
\* close_connexion.  Clients and the caller of start and close are under no
\* obligation, and nothing is assumed of the ConnectionThreads' progress.
FairSpec ==
    /\ InitWith({[tested |-> None, opened |-> None]})
    /\ [][FairNext]_vars
    /\ WF_vars(ListenerStep)
    /\ WF_vars(LoaderReturns \/ CloseConnexion)

\* ------------------------------------------------- behaviours with failures

\* The buffers clients send in the behaviours that set failing threads beside
\* working ones, four of Requests: one for the registered path, one for a
\* path that is not registered, one whose target does not decode and one that
\* does not parse.
CrashRequests ==
    { RequestLine(<<"/">>) \o CRLF \o <<"H", "o", "s", "t", ":", "x">> \o CRLFCRLF,
      RequestLine(<<"/", "m", "i", "s", "s", "i", "n", "g">>) \o CRLFCRLF,
      RequestLine(<<"/", XFF>>) \o CRLFCRLF,
      GET \o <<SP>> \o <<"/">> \o CRLFCRLF }

CrashClientStep == \E c \in Conns : Connect(c) \/ \E r \in CrashRequests : Send(c, r)

CrashNext == CrashClientStep \/ ListenerStep \/ HandlerStep \/ MainStep

\* The file is absent, or present where the wrapper tests and absent where
\* it opens: in the second case the wrapper of the registered path raises.
CrashSpec ==
    /\ InitWith({ [tested |-> None, opened |-> None],
                  [tested |-> Bytes(FILE_BYTES), opened |-> None] })
    /\ [][CrashNext]_vars

\* --------------------------------------------- behaviours from construction

\* Server(argv, host, port) is being called: __init__ is at line 276.
BootInit == StateAt({[tested |-> None, opened |-> None]}, "boot", FALSE)

BootNext == InitConnection \/ Error \/ FairNext

BootSpec == BootInit /\ [][BootNext]_vars

\* ------------------------------------------------- callers of the HTTP classes

\* Header lines of one request.
MaxHeaderLines == 3

\* The header lines a buffer is made of; the last has no colon.
HeaderLines == { <<"a", ":", "1">>, <<"a", ":", " ", "2">>, <<"b", ":", "x", ":", "y">>, <<"c", ":">>, <<"d">> }

\* The sequences of at most n header lines.
RECURSIVE line_seqs(_)
line_seqs(n) ==
    IF n = 0 THEN {<<>>}
    ELSE LET shorter == line_seqs(n - 1)
         IN  shorter \cup {Append(s, l) : s \in shorter, l \in HeaderLines}

RECURSIVE header_block(_)
header_block(lines) ==
    IF lines = <<>> THEN <<>> ELSE CRLF \o Head(lines) \o header_block(Tail(lines))

\* The buffer of a request for "/" with these header lines and no body.
Buffer(lines) == RequestLine(<<"/">>) \o header_block(lines) \o CRLFCRLF

\* The arguments callers pass to set_answer_code, set_headers, set_content.
AnswerCodes == { Str(SUCCESS), Str(ERROR), Str(SERVER_CLOSED), Str(<<"2", "0", "0">>), None }
HeaderDicts ==
    { [t |-> "dict", v |-> <<>>],
      SERVER_HEADERS,
      [t |-> "dict", v |-> << <<<<"a">>, <<"1">>>>, <<<<"b">>, <<EACUTE>>>> >>] }
Contents ==
    { Str(<<"h", "e", "l", "l", "o">>), Str(<<"h", EACUTE>>), Bytes(<<"o", "k">>), Bytes(<<XFF, "k">>), Bytes(<<>>) }

\* HttpPacket.read(datas) on the buffer made of these header lines, the
\* caller's first call: a packet is read before an answer is built.
ReadPacket(lines) ==
    /\ ret.op = "none"
    /\ ret' = [op |-> "read", lines |-> lines, arg |-> Bytes(Buffer(lines)),
               result |-> parse(Buffer(lines))]
    /\ UNCHANGED << boot_vars, obj, given, files, cst, data, server_vars, handler_vars >>

\* HttpPacket.new()
NewAnswer ==
    /\ obj' = new_answer
    /\ given' = None
    /\ ret' = [op |-> "new"]
    /\ UNCHANGED << boot_vars, files, cst, data, server_vars, handler_vars >>

\* obj.set_answer_code(code)
SetAnswerCode(code) ==
    /\ LET r == set_answer_code(obj, code)
       IN  /\ obj' = IF r.exc = "none" THEN r.val ELSE obj
           /\ ret' = [op |-> "set_answer_code", arg |-> code, before |-> obj,
                      exc |-> r.exc]
    /\ UNCHANGED << boot_vars, given, files, cst, data, server_vars, handler_vars >>

\* obj.set_headers(headers)
SetHeaders(headers) ==
    /\ obj' = set_headers(obj, headers)
    /\ ret' = [op |-> "set_headers", arg |-> headers, before |-> obj, exc |-> "none"]
    /\ UNCHANGED << boot_vars, given, files, cst, data, server_vars, handler_vars >>

\* obj.set_content(content)
SetContent(content) ==
    /\ obj' = set_content(obj, content)
    /\ given' = content
    /\ ret' = [op |-> "set_content", arg |-> content, before |-> obj, exc |-> "none"]
    /\ UNCHANGED << boot_vars, files, cst, data, server_vars, handler_vars >>

\* obj.as_bytes()
AsBytes ==
    /\ ret' = [op |-> "as_bytes", before |-> obj, result |-> as_bytes(obj)]
    /\ UNCHANGED << boot_vars, obj, given, files, cst, data, server_vars, handler_vars >>

ApiNext ==
    \/ \E lines \in line_seqs(MaxHeaderLines) : ReadPacket(lines)
    \/ NewAnswer
    \/ \E code \in AnswerCodes : SetAnswerCode(code)
    \/ \E headers \in HeaderDicts : SetHeaders(headers)
    \/ \E content \in Contents : SetContent(content)
    \/ AsBytes

ApiSpec == InitWith({[tested |-> None, opened |-> None]}) /\ [][ApiNext]_vars

\* ------------------------------------------------------- reading the wire

\* The status line of a payload written to a connection: the bytes before
\* the first CRLF.
status_line_of(payload) == split(payload, CRLF)[1]

\* The body of a payload: the bytes between the first blank line and the
\* closing CRLF CRLF.
body_of(payload) ==
    LET i == find_from(payload, CRLFCRLF, 1)
    IN  SubSeq(payload, i + 4, Len(payload) - 4)

\* A request as the interface describes it: a request line of three tokens,
\* header lines, a blank line; the bytes of the request line are text.
well_formed(b) ==
    /\ find_from(b, CRLFCRLF, 1) # 0
    /\ Len(split(split(split(b, CRLFCRLF)[1], CRLF)[1], <<SP>>)) = 3
    /\ decode(split(split(b, CRLFCRLF)[1], CRLF)[1]).exc = "none"

\* The target of a well-formed request, as text.
target_of(b) == decode(split(split(split(b, CRLFCRLF)[1], CRLF)[1], <<SP>>)[2]).val

registered(url) == \E i \in 1..Len(Registrations) : Registrations[i].url = url

\* The last registration of url.
route_of(url) ==
    Registrations[CHOOSE i \in 1..Len(Registrations) :
        /\ Registrations[i].url = url
        /\ \A j \in (i + 1)..Len(Registrations) : Registrations[j].url # url]

\* The connection thread of c has read the request and passed line 217.
dispatched(c) == hpc[c] \in {"answer", "sent", "closed"}

\* The connection thread of c has ended, by returning or by an exception.
ended(c) == hpc[c] \in {"closed", "crashed"}

\* Connection c was answered with this status line and this body: one
\* payload was written, and then the connection was closed.
answered(c, status, body) ==
    /\ hpc[c] = "closed"
    /\ ~copen[c]
    /\ Len(wire[c]) = 1
    /\ status_line_of(wire[c][1]) = status
    /\ body_of(wire[c][1]) = body

\* Connection c is on the way to that answer: the answer built or written
\* carries this status line and this body, and nothing else was written.
answering(c, status, body) ==
    /\ dispatched(c)
    /\ as_bytes(answer[c]).exc = "none"
    /\ status_line_of(as_bytes(answer[c]).val) = status
    /\ body_of(as_bytes(answer[c]).val) = body
    /\ wire[c] = IF hpc[c] = "answer" THEN <<>> ELSE <<as_bytes(answer[c]).val>>
    /\ copen[c] = (hpc[c] # "closed")

\* ------------------------------------------------------------------ claims

\* C1: once the shutdown flag is set, every connection whose thread reaches
\* dispatch is answered with "HTTP/1.1 503 Server closed" and the body
\* "Server closed :/", whether or not its path is registered.  Stated for
\* the flag the thread reads: a thread that read it cleared is answering
\* with the 503 response.
C1_ServerClosedAnswer ==
    \A c \in Conns :
        (hpc[c] \notin {"none", "recv", "parsed"} /\ dalive[c] = "killed")
            => answering(c, SERVER_CLOSED, SERVER_CLOSED_TEXT)

\* C2: a connection accepted after the alive flag was cleared, whose client
\* sends a well-formed request, receives the 503 response and is closed.
\* Stated at the point where the server can do nothing more for it: the
\* ServerThread has ended.
C2_LateConnectionAnswered ==
    \A c \in Conns :
        (acc_alive[c] = "killed" /\ lpc = "dead"
         /\ data[c] # None /\ well_formed(data[c].v))
            => answered(c, SERVER_CLOSED, SERVER_CLOSED_TEXT)

\* The body the interface promises for a registered route: the bytes of the
\* static file when one is configured and exists, the function's output
\* otherwise.
promised_body(route) ==
    IF route.file # None /\ files.tested # None
    THEN files.tested.v
    ELSE LET out == function_call(route.function).val
         IN  IF out.t = "str" THEN encode(out.v) ELSE out.v

\* C3: while no shutdown is in effect, a well-formed request for a
\* registered path whose function returns is answered with
\* "HTTP/1.1 200 OK" and the promised body, and no other route's function
\* is called.
C3_RegisteredPathServed ==
    \A c \in Conns :
        (/\ hpc[c] \notin {"none", "recv", "parsed"}
         /\ well_formed(data[c].v)
         /\ dalive[c] = "alive"
         /\ registered(target_of(data[c].v))
         /\ function_call(route_of(target_of(data[c].v)).function).exc = "none")
            => /\ answering(c, SUCCESS, promised_body(route_of(target_of(data[c].v))))
               /\ \A i \in 1..Len(calls[c]) :
                      calls[c][i] = route_of(target_of(data[c].v)).function

\* C4: while no shutdown is in effect, a well-formed request for a path that
\* is not registered is answered with the body "Not found... :/" under the
\* status line "HTTP/1.1 200 OK", and no registered function is called.
C4_NotFoundAnswer ==
    \A c \in Conns :
        (/\ hpc[c] \notin {"none", "recv", "parsed"}
         /\ well_formed(data[c].v)
         /\ dalive[c] = "alive"
         /\ ~registered(target_of(data[c].v)))
            => /\ answering(c, SUCCESS, NOT_FOUND_TEXT)
               /\ calls[c] = <<>>

\* C4, reached: a request for an unregistered path was answered and its
\* connection closed.
C4_Witness ==
    \E c \in Conns :
        /\ data[c] # None
        /\ well_formed(data[c].v)
        /\ ~registered(target_of(data[c].v))
        /\ dalive[c] = "alive"
        /\ answered(c, SUCCESS, NOT_FOUND_TEXT)

\* C5: when parsing the received bytes fails, the connection thread does not
\* crash: it answers, closes the connection and ends with the connection
\* closed.
C5_ParseFailureHandled ==
    \A c \in Conns :
        (hpc[c] \notin {"none", "recv"} /\ parse(data[c].v).exc # "none")
            => /\ hpc[c] # "crashed"
               /\ (ended(c) => ~copen[c] /\ Len(wire[c]) = 1)

\* C6: a buffer without the blank-line delimiter does not parse: no request
\* is produced from it and it is never dispatched.
C6_NoDelimiterRejected ==
    \A c \in Conns :
        (hpc[c] \notin {"none", "recv"} /\ find_from(data[c].v, CRLFCRLF, 1) = 0)
            => /\ parse(data[c].v).exc # "none"
               /\ hpc[c] \notin {"parsed", "answer", "sent", "closed"}
               /\ dalive[c] = "none"

\* C7 as claimed: close() clears the alive flag, waits until the ServerThread
\* is no longer alive and only then closes the listening socket, and the
\* socket is open in every state where the ServerThread is alive.
C7_StopOrderAlways ==
    /\ [](is_alive => sock_open)
    /\ [][(mpc = "loader" /\ mpc' # "loader") => (~is_alive /\ mpc' = "close")]_vars
    /\ [][(sock_open /\ ~sock_open') => (mpc = "close" /\ ~server_alive /\ ~is_alive)]_vars

\* C7 as amended: close() clears the alive flag, waits until the ServerThread
\* is no longer alive and only then closes the listening socket: the loader
\* is left only with the thread not alive, and the socket is closed only from
\* there, with the flag cleared.  The ServerThread is alive with the socket
\* closed only when it was first started after a close(), and then it finds
\* its flag cleared and ends without an accept.
C7_StopOrder ==
    /\ [][(mpc = "loader" /\ mpc' # "loader") => (~is_alive /\ mpc' = "close")]_vars
    /\ [][(sock_open /\ ~sock_open') => (mpc = "close" /\ ~server_alive /\ ~is_alive)]_vars
    /\ []((is_alive /\ ~sock_open)
            => (lpc_at_kill = "new" /\ ~server_alive /\ lpc \in {"while", "for"} /\ threads = <<>>))

\* C7, reached: a close() called with the ServerThread running has completed.
C7_Witness ==
    /\ mpc = "stopped" /\ lpc = "dead" /\ ~sock_open /\ ~server_alive
    /\ lpc_at_kill \in {"while", "accept", "accepted"}

\* C8: kill() does not interrupt accept.  The ServerThread leaves accept only
\* by accept returning a connection; when the flag was cleared with the
\* thread in accept, the thread ends and close() gets past its loader only
\* after a connection was accepted with the flag cleared; and with such a
\* connection waiting the thread does end and close() completes.
C8_AcceptBlocksStop ==
    /\ [][(lpc = "accept" /\ lpc' # "accept")
            => (backlog # <<>> /\ lpc' = "accepted" /\ client' = Head(backlog))]_vars
    /\ []((lpc_at_kill = "accept" /\ (lpc \in {"for", "dead"} \/ mpc \in {"close", "stopped"}))
            => \E c \in Conns : acc_alive[c] = "killed")
    /\ ((lpc = "accept" /\ ~server_alive /\ backlog # <<>>)
            ~> (lpc = "dead" /\ mpc = "stopped"))

\* C8, reached: the flag was cleared with the ServerThread in accept, one
\* more connection was accepted, and close() completed.
C8_Witness ==
    /\ lpc_at_kill = "accept"
    /\ lpc = "dead"
    /\ mpc = "stopped"
    /\ \E c \in Conns : acc_alive[c] = "killed"

\* The state close() leaves: flag cleared, ServerThread not alive, listening
\* socket closed.
stopped_state == ~server_alive /\ ~is_alive /\ ~sock_open

\* C9 as claimed: close() on a server that has accepted no connection, and a
\* second close(), raise no error, terminate and leave the server in the
\* stopped state.
C9_StopTerminates ==
    /\ [](stops > 0 => (raised = "none" /\ exit_status = "none"))
    /\ [][(mpc = "close" /\ mpc' = "stopped") => stopped_state']_vars
    /\ ((mpc = "loader" /\ \A c \in Conns : acc_alive[c] = "none") ~> (mpc = "stopped"))

\* C9 as amended: close() raises no error; every completed close() leaves
\* the server in the stopped state, and no step but the first start of the
\* ServerThread changes that state afterwards, a further close() included.
\* A close() terminates whenever the ServerThread is not blocked in accept:
\* never started, ended, or running before its loop test or between accept
\* and the flag test.  A close() called with the ServerThread in accept gets
\* to close the socket only after a connection was accepted with the flag
\* cleared.
C9_StopIdempotent ==
    /\ [](stops > 0 => (raised = "none" /\ exit_status = "none"))
    /\ [][(mpc = "close" /\ mpc' = "stopped") => stopped_state']_vars
    /\ [][(stopped_state /\ ~(lpc = "new" /\ lpc' = "while")) =>
            (server_alive' = server_alive /\ sock_open' = sock_open /\ lpc' = lpc)]_vars
    /\ ((mpc = "loader" /\ lpc # "accept") ~> (mpc = "stopped"))
    /\ []((lpc_at_kill = "accept" /\ mpc \in {"close", "stopped"})
            => \E c \in Conns : acc_alive[c] = "killed")

\* C9, reached: a second close() completed on a server that was started and
\* handled no connection.
C9_Witness == stops >= 2 /\ mpc = "stopped" /\ lpc = "dead" /\ threads = <<>>

\* C10: every connection thread whose request bytes arrived writes exactly
\* one response and then closes the connection, whatever parsing and
\* dispatch gave: a thread that has ended has written one payload and closed
\* its connection, and no connection is closed before the payload is written.
C10_OneResponseThenClose ==
    \A c \in Conns :
        /\ Len(wire[c]) <= 1
        /\ (hpc[c] # "none" /\ ~copen[c]) => Len(wire[c]) = 1
        /\ ended(c) => (Len(wire[c]) = 1 /\ ~copen[c])

\* Everything the server holds for connection d and its thread.
conn_state(d) ==
    << cst[d], data[d], hpc[d], halive[d], dalive[d], answer[d], wire[d],
       copen[d], hexc[d], calls[d], acc_alive[d] >>

\* What a ConnectionThread does with a buffer when nothing else runs: the
\* payload it writes, or the exception that ends it.
outcome_alone(buf, flag, fs) ==
    LET request == read_request(buf)
    IN  IF request.exc # "none" THEN Raise(request.exc)
        ELSE LET built == build_answer(request.val, flag, fs)
             IN  IF built.exc # "none" THEN Raise(built.exc)
                 ELSE as_bytes(built.val)

\* C11: a failure in one connection's thread (the buffer does not parse or
\* decode, the wrapper of the path raises, the answer cannot be built) affects no other
\* connection.  The step in which a thread ends with an exception changes
\* nothing of the ServerThread, of the main thread or of any other
\* connection; accept goes on returning waiting connections whatever threads
\* have failed; and every thread that has ended wrote exactly what it would
\* have written alone, given its own buffer and the flag value it read.
C11_FailureIsolated ==
    /\ [][\A c \in Conns :
            (hpc[c] # "crashed" /\ hpc'[c] = "crashed")
                => /\ server_vars' = server_vars
                   /\ \A d \in Conns \ {c} : conn_state(d)' = conn_state(d)]_vars
    /\ []((lpc = "accept" /\ backlog # <<>>) => ENABLED Accept)
    /\ [](\A d \in Conns :
            ended(d) =>
                LET alone == outcome_alone(data[d].v, dalive[d] # "killed", files)
                IN  IF hpc[d] = "crashed"
                    THEN alone.exc = hexc[d] /\ wire[d] = <<>>
                    ELSE alone.exc = "none" /\ wire[d] = <<alone.val>> /\ ~copen[d])

\* C11, reached: the first thread ended with an exception, and a connection
\* the ServerThread accepted after it was served and closed, the ServerThread
\* being back in accept.
C11_Witness ==
    /\ lpc = "accept"
    /\ Len(threads) = 2
    /\ hpc[threads[1]] = "crashed"
    /\ hpc[threads[2]] = "closed"
    /\ Len(wire[threads[2]]) = 1
    /\ status_line_of(wire[threads[2]][1]) = SUCCESS

\* C12: a request for a registered path, dispatched with no shutdown in
\* effect.  When the route has a file argument and that file exists, the
\* body of the answer is exactly the bytes of that file (the file tested is
\* the file read) and the registered function is not called; when the route
\* has no file argument or the file does not exist, the function is called,
\* once, and what it returns is the body.
C12_StaticFileDispatch ==
    \A c \in Conns :
        (/\ hpc[c] \notin {"none", "recv", "parsed"}
         /\ well_formed(data[c].v)
         /\ dalive[c] = "alive"
         /\ registered(target_of(data[c].v)))
            => LET route == route_of(target_of(data[c].v))
               IN  IF route.file # None /\ files.tested # None
                   THEN /\ calls[c] = <<>>
                        /\ hpc[c] # "crashed"
                        /\ body_of(as_bytes(answer[c]).val) = files.tested.v
                   ELSE /\ calls[c] = <<route.function>>
                        /\ function_call(route.function).exc = "none"
                            => /\ hpc[c] # "crashed"
                               /\ body_of(as_bytes(answer[c]).val) = promised_body(route)

\* A field of the answer is still unset.
unset(fields) == fields.code = None \/ fields.headers = None \/ fields.content = None

\* C13: as_bytes fails, with AttributeError (the code's exception for an
\* incomplete answer), whenever the code, the headers or the content is
\* still unset, and succeeds whenever all three are set (the content being
\* text or bytes); the call, failed or not, changes no field of the answer.
C13_SerializeNeedsAllFields ==
    ret.op = "as_bytes"
        => /\ unset(ret.before) <=> ret.result.exc = "AttributeError"
           /\ ~unset(ret.before) <=> ret.result.exc = "none"
           /\ obj = ret.before

\* C13, reached: as_bytes failed on an answer with its code and headers set
\* and no content.
C13_Witness ==
    /\ ret.op = "as_bytes"
    /\ ret.result.exc = "AttributeError"
    /\ obj.code # None
    /\ obj.headers # None
    /\ obj.content = None

\* The place of the first colon of a header line, and the bytes before and
\* after it.
has_colon(line) == \E i \in 1..Len(line) : line[i] = COLON
first_colon(line) ==
    CHOOSE i \in 1..Len(line) : line[i] = COLON /\ \A j \in 1..(i - 1) : line[j] # COLON
name_of(line) == SubSeq(line, 1, first_colon(line) - 1)
value_of(line) == SubSeq(line, first_colon(line) + 1, Len(line))

\* The last call read a well-formed buffer: every header line has a colon.
read_well_formed ==
    /\ ret.op = "read"
    /\ \A i \in 1..Len(ret.lines) : has_colon(ret.lines[i])

\* C14 as claimed: a well-formed buffer with N header lines parses to a
\* header mapping of exactly N entries, and each line has its entry: the
\* bytes before its first colon as the name, the bytes after it, untouched,
\* as the value.
C14_OneEntryPerLine ==
    read_well_formed
        => /\ ret.result.exc = "none"
           /\ Len(ret.result.val.headers) = Len(ret.lines)
           /\ \A i \in 1..Len(ret.lines) :
                  \E e \in 1..Len(ret.result.val.headers) :
                      ret.result.val.headers[e] = <<name_of(ret.lines[i]), value_of(ret.lines[i])>>

\* C14 as amended: the mapping has one entry per distinct name, so exactly N
\* entries when the N names are pairwise distinct; the entry of a name
\* carries the bytes after the first colon, untouched, of the last line with
\* that name.
C14_OneEntryPerName ==
    read_well_formed
        => /\ ret.result.exc = "none"
           /\ LET lines   == ret.lines
                  headers == ret.result.val.headers
                  names   == {name_of(lines[i]) : i \in 1..Len(lines)}
                  last(n) == CHOOSE i \in 1..Len(lines) :
                                 /\ name_of(lines[i]) = n
                                 /\ \A j \in (i + 1)..Len(lines) : name_of(lines[j]) # n
              IN  /\ Len(headers) = Cardinality(names)
                  /\ Cardinality(names) = Len(lines) => Len(headers) = Len(lines)
                  /\ \A n \in names :
                         /\ Cardinality({e \in 1..Len(headers) : headers[e][1] = n}) = 1
                         /\ dict_get(headers, n) = value_of(lines[last(n)])

\* C14, reached: three header lines were read, two of them with the same
\* name, one value with a leading space and one with a colon in it.
C14_Witness ==
    /\ read_well_formed
    /\ ret.lines = << <<"a", ":", "1">>, <<"b", ":", "x", ":", "y">>, <<"a", ":", " ", "2">> >>
    /\ ret.result.val.headers = << <<<<"a">>, <<" ", "2">>>>, <<<<"b">>, <<"x", ":", "y">>>> >>

\* C15: when bind or listen fails, the server prints the error, closes the
\* socket it had opened without raising a further error, never starts the
\* ServerThread, and exits through sys.exit(1).  Stated of the state in
\* which the process has ended after a failed construction.
C15_InitFailureIsFatal ==
    (mpc = "exited" /\ ~listening)
        => /\ stderr = <<INIT_CONNEXION_ERROR>>
           /\ raised = "none"
           /\ ~sock_open
           /\ lpc = "new"
           /\ exit_status \notin {"none", "0"}

\* The ConnectionThreads built for connection c, by their place in _threads.
handlers_of(c) == {i \in 1..Len(threads) : threads[i] = c}

\* C16: every connection accept has returned is handed to exactly one new
\* ConnectionThread: no connection has two threads, and once the
\* ServerThread is past lines 241-245 for a connection, that connection has
\* its thread.
C16_OneHandlerPerConnection ==
    \A c \in Conns :
        /\ Cardinality(handlers_of(c)) <= 1
        /\ (acc_alive[c] # "none" /\ ~(lpc = "accepted" /\ client = c))
               => /\ Cardinality(handlers_of(c)) = 1
                  /\ cst[c] = "handled"
                  /\ hpc[c] # "none"

\* C17: leaving its loop, the ServerThread only marks the ConnectionThreads.
\* The step that clears a thread's flag is a turn of the for loop and changes
\* nothing else of that thread or its connection; and a thread that read its
\* flag set before being marked goes on with its normal dispatch, the one of
\* a thread never marked: the answer built is the answer under the 200
\* status line of its route, or the not-found answer, sendall and close stay
\* enabled, that answer is what gets written, once, and the connection is
\* closed after it (a thread whose wrapper raises ends with that
\* exception, marked or not).
C17_MarkedHandlerCompletes ==
    /\ [][\A c \in Conns :
            (halive[c] /\ ~halive'[c])
                => /\ lpc = "for"
                   /\ hpc'[c] = hpc[c]
                   /\ answer'[c] = answer[c]
                   /\ wire'[c] = wire[c]
                   /\ copen'[c] = copen[c]
                   /\ hexc'[c] = hexc[c]]_vars
    /\ [](\A c \in Conns :
            (dalive[c] = "alive" /\ ~halive[c])
                => LET normal == outcome_alone(data[c].v, TRUE, files)
                   IN  IF normal.exc # "none"
                       THEN hpc[c] = "crashed" /\ hexc[c] = normal.exc /\ wire[c] = <<>>
                       ELSE /\ hpc[c] \in {"answer", "sent", "closed"}
                            /\ as_bytes(answer[c]) = normal
                            /\ status_line_of(normal.val) = SUCCESS
                            /\ ~registered(target_of(data[c].v))
                                   => body_of(normal.val) = NOT_FOUND_TEXT
                            /\ wire[c] = IF hpc[c] = "answer" THEN <<>> ELSE <<normal.val>>
                            /\ copen[c] = (hpc[c] # "closed")
                            /\ hpc[c] = "answer" => ENABLED Sendall(c)
                            /\ hpc[c] = "sent" => ENABLED CloseConn(c))

\* C17, reached: a thread read its flag set, built the 200 answer of its
\* route, and was marked before it sent.
C17_Witness ==
    \E c \in Conns :
        /\ dalive[c] = "alive"
        /\ ~halive[c]
        /\ hpc[c] = "answer"
        /\ wire[c] = <<>>
        /\ registered(target_of(data[c].v))

\* C18: set_answer_code accepts each of the three status lines of the
\* interface, "HTTP/1.1 200 OK", "HTTP/1.1 404 Not Found" and
\* "HTTP/1.1 503 Server closed", and the code of the answer is then that
\* line; any other value is rejected with an exception and leaves the code
\* as it was.
C18_StatusEnumeration ==
    ret.op = "set_answer_code"
        => IF ret.arg \in {Str(SUCCESS), Str(ERROR), Str(SERVER_CLOSED)}
           THEN ret.exc = "none" /\ obj.code = ret.arg
           ELSE ret.exc # "none" /\ obj.code = ret.before.code

\* The pieces joined by sep.
RECURSIVE join(_, _)
join(pieces, sep) ==
    IF pieces = <<>> THEN <<>>
    ELSE IF Len(pieces) = 1 THEN pieces[1]
    ELSE pieces[1] \o sep \o join(Tail(pieces), sep)

\* One line per entry of a header mapping: name, colon, space, value.
header_lines(d) ==
    [i \in 1..Len(d) |-> encode(d[i][1]) \o <<COLON, SP>> \o encode(d[i][2])]

\* The bytes of a body given as text or as bytes.
body_bytes(content) == IF content.t = "str" THEN encode(content.v) ELSE content.v

\* C19: the bytes as_bytes returns for a complete answer are the status
\* line, CRLF, one line per header entry joined by CRLF, CRLF CRLF, the
\* body, CRLF CRLF; the body is the encoding of the text given to
\* set_content, or the bytes given to it, unchanged.
C19_Framing ==
    (ret.op = "as_bytes" /\ ~unset(obj))
        => /\ ret.result.exc = "none"
           /\ ret.result.val =
                  encode(obj.code.v) \o CRLF \o join(header_lines(obj.headers.v), CRLF)
                  \o CRLFCRLF \o body_bytes(given) \o CRLFCRLF

\* C19, reached: an answer with two headers and a text body outside ASCII
\* was serialised.
C19_Witness ==
    /\ ret.op = "as_bytes"
    /\ given = Str(<<"h", EACUTE>>)
    /\ obj.headers # None
    /\ Len(obj.headers.v) = 2
    /\ ret.result = Ok(<<"H", "T", "T", "P", "/", "1", ".", "1", " ", "2", "0", "0", " ", "O", "K">> \o CRLF \o <<"a", ":", " ", "1">> \o CRLF
                       \o <<"b", ":", " ", XC3, XA9>> \o CRLFCRLF
                       \o <<"h", XC3, XA9>> \o CRLFCRLF)

\* C20: the flag a ConnectionThread reads is its own, cleared only by the
\* ServerThread's for loop, after the accept loop is left, and never by
\* close() directly.  While the ServerThread is in its accept loop every
\* thread it has built has its flag set, so no thread reads it cleared
\* there, close() called or not; the step that clears a flag is a turn of
\* the for loop; kill() changes no thread's flag; and once the ServerThread
\* has ended, every thread it built has its flag cleared.
C20_OwnFlagClearedByListener ==
    /\ [](lpc \in {"new", "while", "accept", "accepted"}
            => /\ \A i \in 1..Len(threads) : halive[threads[i]]
               /\ \A c \in Conns : dalive[c] # "killed")
    /\ [](lpc = "dead" => \A i \in 1..Len(threads) : ~halive[threads[i]])
    /\ [][\A c \in Conns :
            halive'[c] # halive[c]
                => /\ lpc = "for" /\ lpc' = "for"
                   /\ ~halive'[c]
                   /\ c = threads[ki]
                   /\ mpc' = mpc /\ stops' = stops]_vars
    /\ [][server_alive' # server_alive => halive' = halive]_vars

\* C20, reached: close() was called, a thread dispatched normally before the
\* ServerThread left its loop, and the ServerThread has ended with every
\* thread's flag cleared.
C20_Witness ==
    /\ lpc = "dead"
    /\ ~server_alive
    /\ threads # <<>>
    /\ \A i \in 1..Len(threads) : ~halive[threads[i]]
    /\ \E i \in 1..Len(threads) : dalive[threads[i]] = "alive"

=============================================================================
